---- MODULE Spec2Model ----
(***************************************************************************)
(* A model of newdoku (src/src/lib.rs): the 81-cell Sudoku grid, parsing,  *)
(* the validated insertion try_insert and the backtracking search          *)
(* solution.  Rust tuples loc = (loc.0, loc.1) are the TLA+ tuples         *)
(* <<loc[1], loc[2]>>; Rust arrays indexed from 0 are functions on 0..80.  *)
(***************************************************************************)
EXTENDS Integers, Sequences, FiniteSets, TLC

VARIABLES
    src,      \* the input text, a sequence of characters
    pc,       \* where the client is: "parse", "solve", "insert", "done", "parse_error"
    parsed,   \* the Sudoku returned by from_str
    quiet,    \* solution's argument quiet
    step,     \* solution's argument step (milliseconds)
    stack,    \* the call stack of solution, outermost call first
    result,   \* what the outermost call of solution returned
    shown,    \* the last Sudoku printed by solution
    slept,    \* the milliseconds solution has slept in all
    self,     \* the Sudoku the insert client holds
    n,        \* how many results of try_insert the insert client has kept
    call,     \* the arguments of the try_insert call in progress
    res       \* the value that call returned

vars == <<src, pc, parsed, quiet, step, stack, result, shown, slept, self, n, call, res>>

(***************************************************************************)
(* Bounds of the exploration.                                              *)
(***************************************************************************)
\* coordinates passed to try_insert range over 0..MaxCoord (9 is out of range)
MaxCoord == 9
\* numbers passed to try_insert range over 0..MaxNum (10 is out of range)
MaxNum == 10
\* how many results of try_insert the insert client keeps in a row
MaxInserts == 1
\* the solver's inputs blank 0..MaxBlank characters of SOLVED_SUDOKU
MaxBlank == 17

(***************************************************************************)
(* Option<T>, Result<T, E> and SudokuNum.                                  *)
(***************************************************************************)
None == <<>>

Some(v) == <<v>>

is_none(o) == o = None

Ok(v) == [ok |-> TRUE, val |-> v]

Err(e) == [ok |-> FALSE, err |-> e]

Original(num) == [tag |-> "Original", num |-> num]

Edited(num) == [tag |-> "Edited", num |-> num]

\* impl PartialEq for SudokuNum: the digits are compared, the tags are not
SudokuNum_eq(a, b) == a.num = b.num

\* Option<SudokuNum>'s ==, derived from SudokuNum's
Option_eq(a, b) ==
    IF is_none(a) \/ is_none(b) THEN is_none(a) /\ is_none(b)
    ELSE SudokuNum_eq(a[1], b[1])

\* impl PartialEq for Sudoku
Sudoku_eq(a, b) == \A k \in 0..80 : Option_eq(a[k], b[k])

(***************************************************************************)
(* The texts of the tests.                                                 *)
(***************************************************************************)
TEST_SUDOKU ==
       <<"x","x","x","x","x","x","x","9","x">>
    \o <<"x","9","x","7","x","x","2","1","x">>
    \o <<"x","x","4","x","9","x","x","x","x">>
    \o <<"x","1","x","x","x","8","x","x","x">>
    \o <<"7","x","x","4","2","x","x","x","5">>
    \o <<"x","x","8","x","x","x","x","7","4">>
    \o <<"8","x","1","x","x","x","x","4","x">>
    \o <<"x","x","x","x","x","x","x","x","x">>
    \o <<"x","x","9","6","1","3","x","x","x">>

SOLVED_SUDOKU ==
       <<"1","5","7","8","3","2","4","9","6">>
    \o <<"3","9","6","7","4","5","2","1","8">>
    \o <<"2","8","4","1","9","6","7","5","3">>
    \o <<"4","1","5","3","7","8","9","6","2">>
    \o <<"7","6","3","4","2","9","1","8","5">>
    \o <<"9","2","8","5","6","1","3","7","4">>
    \o <<"8","3","1","2","5","7","6","4","9">>
    \o <<"6","7","2","9","8","4","5","3","1">>
    \o <<"5","4","9","6","1","3","8","2","7">>

(***************************************************************************)
(* from_str.                                                               *)
(***************************************************************************)
Digits == {"0", "1", "2", "3", "4", "5", "6", "7", "8", "9"}

\* x.to_string().parse::<u8>() of a one-character string that is a digit
parse_u8(c) ==
    CASE c = "0" -> 0 [] c = "1" -> 1 [] c = "2" -> 2 [] c = "3" -> 3
      [] c = "4" -> 4 [] c = "5" -> 5 [] c = "6" -> 6 [] c = "7" -> 7
      [] c = "8" -> 8 [] c = "9" -> 9

NotNewline(c) == c # "\n"

from_str(s) ==
    LET chars == SelectSeq(s, NotNewline)
        cell(c) == IF c \in Digits THEN Some(Original(parse_u8(c))) ELSE None
    IN  IF Len(chars) = 81
        THEN Ok([k \in 0..80 |-> cell(chars[k + 1])])
        ELSE Err("ParseError")

(***************************************************************************)
(* try_insert.                                                             *)
(***************************************************************************)
\* xs[k] == Some(Original(num)) | xs[k] == Some(Edited(num))
Holds(xs, k, num) ==
    Option_eq(xs[k], Some(Original(num))) \/ Option_eq(xs[k], Some(Edited(num)))

\* a scan of the whole row, then of the whole column
RowColScan_rowfirst(xs, loc, num, x) ==
    IF \E m \in 0..8 : Holds(xs, loc[2] * 9 + m, num) THEN "RowDuplicate"
    ELSE IF \E m \in 0..8 : Holds(xs, m * 9 + loc[1], num) THEN "ColDuplicate"
    ELSE "NoDuplicate"

\* the loop for x in 0..9: at each x the row cell, then the column cell
RECURSIVE RowColScan(_, _, _, _)
RowColScan(xs, loc, num, x) ==
    IF x = 9 THEN "NoDuplicate"
    ELSE IF Holds(xs, loc[2] * 9 + x, num) THEN "RowDuplicate"
    ELSE IF Holds(xs, x * 9 + loc[1], num) THEN "ColDuplicate"
    ELSE RowColScan(xs, loc, num, x + 1)

\* the block's first coordinate taken for its centre
rel_center_first(origin) == origin - (origin % 3)

rel_center(origin) == origin + 1 - (origin % 3)

\* the indices the block loops read, in the order they read them
BlockIndices(loc) ==
    LET center == <<rel_center(loc[1]), rel_center(loc[2])>>
        at(m) == LET i == ((m - 1) \div 3) - 1
                     j == ((m - 1) % 3) - 1
                 IN  (center[2] + j) * 9 + center[1] + i
    IN  [m \in 1..9 |-> at(m)]

\* the loops for i in -1..2, for j in -1..2; an index outside the array panics
RECURSIVE BlockScan(_, _, _, _)
BlockScan(xs, idx, num, m) ==
    IF m > Len(idx) THEN "NoDuplicate"
    ELSE IF idx[m] \notin 0..80 THEN "Panic"
    ELSE IF Holds(xs, idx[m], num) THEN "BlockDuplicate"
    ELSE BlockScan(xs, idx, num, m + 1)

\* try_insert without the block loops
try_insert_noblock(xs, loc, num) ==
    IF loc[1] > 8 \/ loc[2] > 8 THEN Err("InvalidLoc")
    ELSE IF num > 9 THEN Err("InvalidNumber")
    ELSE LET rc == RowColScan(xs, loc, num, 0)
         IN  IF rc # "NoDuplicate" THEN Err(rc)
             ELSE Ok([xs EXCEPT ![loc[2] * 9 + loc[1]] = Some(Edited(num))])

\* try_insert without the assignment of line 180
try_insert_nowrite(xs, loc, num) ==
    IF loc[1] > 8 \/ loc[2] > 8 THEN Err("InvalidLoc")
    ELSE IF num > 9 THEN Err("InvalidNumber")
    ELSE LET rc == RowColScan(xs, loc, num, 0)
             bl == BlockScan(xs, BlockIndices(loc), num, 1)
         IN  IF rc # "NoDuplicate" THEN Err(rc)
             ELSE IF bl # "NoDuplicate" THEN Err(bl)
             ELSE Ok(xs)

\* try_insert reading loc as (row, column)
try_insert_swapped(xs, loc, num) ==
    IF loc[1] > 8 \/ loc[2] > 8 THEN Err("InvalidLoc")
    ELSE IF num > 9 THEN Err("InvalidNumber")
    ELSE LET rc == RowColScan(xs, <<loc[2], loc[1]>>, num, 0)
             bl == BlockScan(xs, BlockIndices(<<loc[2], loc[1]>>), num, 1)
         IN  IF rc # "NoDuplicate" THEN Err(rc)
             ELSE IF bl # "NoDuplicate" THEN Err(bl)
             ELSE Ok([xs EXCEPT ![loc[1] * 9 + loc[2]] = Some(Edited(num))])

try_insert(xs, loc, num) ==
    IF loc[1] > 8 \/ loc[2] > 8 THEN Err("InvalidLoc")
    ELSE IF num > 9 THEN Err("InvalidNumber")
    ELSE LET rc == RowColScan(xs, loc, num, 0)
             bl == BlockScan(xs, BlockIndices(loc), num, 1)
         IN  IF rc # "NoDuplicate" THEN Err(rc)
             ELSE IF bl # "NoDuplicate" THEN Err(bl)
             ELSE Ok([xs EXCEPT ![loc[2] * 9 + loc[1]] = Some(Edited(num))])

is_full(xs) == \A k \in 0..80 : ~is_none(xs[k])

\* the first empty cell with the loops exchanged: column by column
FirstEmpty_colmajor(xs) ==
    LET order(k) == (k % 9) * 9 + (k \div 9)
        k == CHOOSE k \in 0..80 :
                 is_none(xs[k])
                 /\ \A m \in 0..80 : is_none(xs[m]) => order(k) <= order(m)
    IN  <<k \div 9, k % 9>>

\* the loops for i in 0..9, for j in 0..9 of solution: the first empty cell
FirstEmpty(xs) ==
    LET k == CHOOSE k \in 0..80 :
                 is_none(xs[k]) /\ \A m \in 0..(k - 1) : ~is_none(xs[m])
    IN  <<k \div 9, k % 9>>

(***************************************************************************)
(* The insert client: it parses a text, then calls try_insert with any     *)
(* arguments, and keeps a returned grid the way solution does (an Ok       *)
(* result at the first empty cell) or drops it.                            *)
(***************************************************************************)
InsertInputs ==
    { TEST_SUDOKU,
      SubSeq(TEST_SUDOKU, 1, 9) \o <<"\n">> \o SubSeq(TEST_SUDOKU, 10, 81),
      SubSeq(TEST_SUDOKU, 1, 80) }

InitInsert ==
    /\ src \in InsertInputs
    /\ pc = "parse"
    /\ parsed = None
    /\ quiet = TRUE
    /\ step = 0
    /\ stack = <<>>
    /\ result = None
    /\ shown = None
    /\ slept = 0
    /\ self = None
    /\ n = 0
    /\ call = None
    /\ res = None

ParseInsert ==
    /\ pc = "parse"
    /\ LET r == from_str(src)
       IN  IF r.ok
           THEN /\ parsed' = Some(r.val)
                /\ self' = Some(r.val)
                /\ pc' = "insert"
           ELSE /\ pc' = "parse_error"
                /\ UNCHANGED <<parsed, self>>
    /\ UNCHANGED <<src, quiet, step, stack, result, shown, slept, n, call, res>>

Call(loc, num) ==
    /\ pc = "insert"
    /\ call = None
    /\ call' = Some([loc |-> loc, num |-> num])
    /\ res' = Some(try_insert(self[1], loc, num))
    /\ UNCHANGED <<src, pc, parsed, quiet, step, stack, result, shown, slept, self, n>>

\* the caller goes on with the returned grid (solution, lines 224 and 232)
Keep ==
    /\ pc = "insert"
    /\ call # None
    /\ res[1].ok
    /\ n < MaxInserts
    /\ ~is_full(self[1])
    /\ call[1].loc = <<FirstEmpty(self[1])[2], FirstEmpty(self[1])[1]>>
    /\ self' = Some(res[1].val)
    /\ n' = n + 1
    /\ call' = None
    /\ res' = None
    /\ UNCHANGED <<src, pc, parsed, quiet, step, stack, result, shown, slept>>

\* the caller drops the returned value and keeps its own grid
Drop ==
    /\ pc = "insert"
    /\ call # None
    /\ call' = None
    /\ res' = None
    /\ UNCHANGED <<src, pc, parsed, quiet, step, stack, result, shown, slept, self, n>>

NextInsert ==
    \/ ParseInsert
    \/ \E x \in 0..MaxCoord, y \in 0..MaxCoord, num \in 0..MaxNum : Call(<<x, y>>, num)
    \/ Keep
    \/ Drop

SpecInsert == InitInsert /\ [][NextInsert]_vars

(***************************************************************************)
(* The rules of Sudoku, stated on cell indices.                            *)
(***************************************************************************)
RowOf(k) == k \div 9

ColOf(k) == k % 9

RowCells(r) == {k \in 0..80 : RowOf(k) = r}

ColCells(c) == {k \in 0..80 : ColOf(k) = c}

\* the aligned 3x3 block that holds the cell at row r and column c
BlockCells(r, c) ==
    {k \in 0..80 : RowOf(k) \div 3 = r \div 3 /\ ColOf(k) \div 3 = c \div 3}

HasDigit(xs, k, d) == ~is_none(xs[k]) /\ xs[k][1].num = d

Occurs(xs, cells, d) == \E k \in cells : HasDigit(xs, k, d)

IsGiven(xs, k) == ~is_none(xs[k]) /\ xs[k][1].tag = "Original"

Range(s) == {s[m] : m \in DOMAIN s}

(***************************************************************************)
(* Claims about try_insert, on the call the insert client has in progress: *)
(* try_insert(TheGrid, <<X, Y>>, Num) returned Ret.                        *)
(***************************************************************************)
Called == pc = "insert" /\ call # None

TheGrid == self[1]

X == call[1].loc[1]

Y == call[1].loc[2]

Num == call[1].num

Ret == res[1]

\* a cell of the grid and a digit of Sudoku
InRange == X <= 8 /\ Y <= 8 /\ Num \in 1..9

Failed(e) == ~Ret.ok /\ Ret.err = e

\* the positions 0..8 along the scanned row, and along the scanned column,
\* at which the digit stands
RowHits == {m \in 0..8 : HasDigit(TheGrid, Y * 9 + m, Num)}

ColHits == {m \in 0..8 : HasDigit(TheGrid, m * 9 + X, Num)}

\* C4 as stated: a digit anywhere in the row gives RowDuplicate; ColDuplicate
\* only when the digit is absent from the whole row; BlockDuplicate only when it
\* is absent from the whole row and the whole column.
C4_RowBeforeCol ==
    (Called /\ InRange) =>
        /\ (RowHits # {} => Failed("RowDuplicate"))
        /\ (Failed("ColDuplicate") => RowHits = {})
        /\ (Failed("BlockDuplicate") => RowHits = {} /\ ColHits = {})

\* C4 amended: the row and the column are scanned together, position by
\* position, the row cell first: RowDuplicate exactly when the digit's first
\* position in the row is no later than its first position in the column,
\* ColDuplicate exactly when its first position in the column is strictly
\* earlier than every position it has in the row, and BlockDuplicate only
\* when the digit is in neither.
C4_FirstHitInterleaved ==
    (Called /\ InRange) =>
        /\ Failed("RowDuplicate") <=>
               \E a \in RowHits : \A b \in ColHits : a <= b
        /\ Failed("ColDuplicate") <=>
               \E b \in ColHits : \A a \in RowHits : b < a
        /\ (Failed("BlockDuplicate") => RowHits = {} /\ ColHits = {})

\* a call that found the digit in the row, and reported the column
C4_Witness ==
    Called /\ InRange /\ RowHits # {} /\ ColHits # {} /\ Failed("ColDuplicate")

\* C5: a row or column outside 0..8 gives InvalidLoc, a digit outside 1..9
\* (0 included) gives InvalidNumber, and neither call returns a grid.
C5_Preconditions ==
    Called =>
        /\ ((X > 8 \/ Y > 8) => Failed("InvalidLoc"))
        /\ ((X <= 8 /\ Y <= 8 /\ Num \notin 1..9) => Failed("InvalidNumber"))

\* C7: every cell that was Given(d) in the parsed grid is still Given(d) in
\* the grid the client holds and in every grid try_insert returns.
C7_GivenImmutable ==
    pc = "insert" =>
        \A k \in 0..80 : IsGiven(parsed[1], k) =>
            /\ TheGrid[k] = parsed[1][k]
            /\ (call # None /\ InRange /\ Ret.ok => Ret.val[k] = parsed[1][k])

\* the scenario grid of the tests, as parsed
OnTestGrid == Called /\ TheGrid = from_str(TEST_SUDOKU).val

Args(a, b, d) == X = a /\ Y = b /\ Num = d

\* the grid as it is after cell k became Assigned(d)
WithAssigned(xs, k, d) == [xs EXCEPT ![k] = Some(Edited(d))]

\* C8 as stated: the first coordinate is the row, the second the column: a
\* successful insert changes cell first*9 + second, RowDuplicate refers to the
\* cells first*9 + 0..8 and ColDuplicate to the cells 0..8*9 + second.
C8_FirstIsRow ==
    (Called /\ InRange) =>
        /\ (Ret.ok => Ret.val = WithAssigned(TheGrid, X * 9 + Y, Num))
        /\ (Failed("RowDuplicate") => Occurs(TheGrid, RowCells(X), Num))
        /\ (Failed("ColDuplicate") => Occurs(TheGrid, ColCells(Y), Num))

\* C8 amended: the first coordinate is the column (x), the second the row
\* (y): a successful insert changes cell second*9 + first, RowDuplicate refers
\* to the cells second*9 + 0..8 and ColDuplicate to the cells 0..8*9 + first;
\* on the scenario grid (3,2)/5 changes cell 2*9+3, (5,6)/4 gives RowDuplicate,
\* (5,7)/8 ColDuplicate and (5,6)/6 BlockDuplicate.
C8_FirstIsColumn ==
    /\ (Called /\ InRange) =>
        /\ (Ret.ok => Ret.val = WithAssigned(TheGrid, Y * 9 + X, Num))
        /\ (Failed("RowDuplicate") => Occurs(TheGrid, RowCells(Y), Num))
        /\ (Failed("ColDuplicate") => Occurs(TheGrid, ColCells(X), Num))
    /\ OnTestGrid =>
        /\ (Args(3, 2, 5) => Ret.ok /\ Ret.val = WithAssigned(TheGrid, 2 * 9 + 3, 5))
        /\ (Args(5, 6, 4) => Failed("RowDuplicate"))
        /\ (Args(5, 7, 8) => Failed("ColDuplicate"))
        /\ (Args(5, 6, 6) => Failed("BlockDuplicate"))

\* the insert of the test try_insert, done
C8_Witness == OnTestGrid /\ Args(3, 2, 5) /\ Ret.ok

\* C9: for an in-range cell and a digit 1..9, try_insert succeeds exactly when
\* no cell of the target's row, column or aligned block holds the digit; the
\* block loops read exactly the nine cells of that block; and the grid
\* returned is the input with the target cell Assigned(digit).
C9_ReferenceRule ==
    (Called /\ InRange) =>
        /\ Ret.ok <=>
               ~Occurs(TheGrid, RowCells(Y) \cup ColCells(X) \cup BlockCells(Y, X), Num)
        /\ Range(BlockIndices(call[1].loc)) = BlockCells(Y, X)
        /\ Cardinality(BlockCells(Y, X)) = 9
        /\ ~Failed("Panic")
        /\ (Ret.ok => Ret.val = WithAssigned(TheGrid, Y * 9 + X, Num))

\* a successful insert into a grid that already holds an Assigned cell
C9_Witness ==
    Called /\ InRange /\ Ret.ok /\ \E k \in 0..80 : TheGrid[k] = Some(Edited(Num + 1))

(***************************************************************************)
(* solution: the recursion as a stack of frames.  A frame holds the grid   *)
(* it was called on (self), where it is (pc: "enter" before line 215,      *)
(* "loop" in the loop of line 223 at cell (i, j) and digit x, "return"     *)
(* at line 233 with the grid ret to return).                               *)
(***************************************************************************)
Frame(xs) == [self |-> xs, pc |-> "enter", i |-> 0, j |-> 0, x |-> 1, ret |-> None]

Top == stack[Len(stack)]

SetTop(f) == [stack EXCEPT ![Len(stack)] = f]

\* the loop of line 223 goes on with the next digit
NextDigit(f) == [f EXCEPT !.x = @ + 1]

\* a failed callee ends the loop: the frame gives up
OnChildNone_giveup(f) == [f EXCEPT !.x = 10]

\* line 232 found None: the loop goes on
OnChildNone(f) == NextDigit(f)

\* line 232 found Some(sudoku): line 233 returns it
OnChildSome(f, v) == [f EXCEPT !.pc = "return", !.ret = v]

\* the top frame returns v to its caller, or to the client
Return(v) ==
    IF Len(stack) = 1
    THEN /\ stack' = <<>>
         /\ result' = v
         /\ pc' = "done"
    ELSE LET caller == stack[Len(stack) - 1]
             rest == SubSeq(stack, 1, Len(stack) - 2)
         IN  /\ stack' = rest \o << IF is_none(v) THEN OnChildNone(caller)
                                    ELSE OnChildSome(caller, v) >>
             /\ UNCHANGED <<result, pc>>

\* s with K of its characters blanked: the characters 0, stride, 2*stride, ...
Blank(s, K, stride) ==
    [k \in 1..Len(s) |->
        IF (k - 1) % stride = 0 /\ (k - 1) \div stride < K THEN "x" ELSE s[k]]

Strides == {1, 3}

\* the solved grid of the tests with some cells blanked, then with its first
\* character overwritten by a digit; and a text one character short
SolveInputs ==
    LET blanked == { Blank(SOLVED_SUDOKU, K, stride) :
                       K \in 0..MaxBlank, stride \in Strides }
    IN  blanked
        \cup { [s EXCEPT ![1] = d] : s \in blanked, d \in Digits }
        \cup { SubSeq(SOLVED_SUDOKU, 1, 80) }

Init ==
    /\ src \in SolveInputs
    /\ pc = "parse"
    /\ parsed = None
    /\ quiet \in BOOLEAN
    /\ step \in {0, 1}
    /\ stack = <<>>
    /\ result = None
    /\ shown = None
    /\ slept = 0
    /\ self = None
    /\ n = 0
    /\ call = None
    /\ res = None

\* the client: from_str, then solution(step, quiet) on the parsed grid
Parse ==
    /\ pc = "parse"
    /\ LET r == from_str(src)
       IN  IF r.ok
           THEN /\ parsed' = Some(r.val)
                /\ stack' = <<Frame(r.val)>>
                /\ pc' = "solve"
           ELSE /\ pc' = "parse_error"
                /\ UNCHANGED <<parsed, stack>>
    /\ UNCHANGED <<src, quiet, step, result, shown, slept, self, n, call, res>>

\* lines 213-222: a full grid is returned, otherwise the first empty cell is found
Enter ==
    /\ pc = "solve"
    /\ Top.pc = "enter"
    /\ IF is_full(Top.self)
       THEN Return(Some(Top.self))
       ELSE /\ stack' = SetTop([Top EXCEPT !.pc = "loop",
                                           !.i = FirstEmpty(Top.self)[1],
                                           !.j = FirstEmpty(Top.self)[2],
                                           !.x = 1])
            /\ UNCHANGED <<result, pc>>
    /\ UNCHANGED <<src, parsed, quiet, step, shown, slept, self, n, call, res>>

\* lines 223-232: one digit of the loop; an Ok insertion is printed and recursed into
TryDigit ==
    /\ pc = "solve"
    /\ Top.pc = "loop"
    /\ Top.x < 10
    /\ LET r == try_insert(Top.self, <<Top.j, Top.i>>, Top.x)
       IN  IF r.ok
           THEN /\ shown' = IF ~quiet THEN Some(r.val) ELSE shown
                /\ slept' = IF step > 0 THEN slept + step ELSE slept
                /\ stack' = Append(stack, Frame(r.val))
           ELSE /\ stack' = SetTop(NextDigit(Top))
                /\ UNCHANGED <<shown, slept>>
    /\ UNCHANGED <<src, pc, parsed, quiet, step, result, self, n, call, res>>

\* line 237: every digit failed at the cell
LoopEnd ==
    /\ pc = "solve"
    /\ Top.pc = "loop"
    /\ Top.x >= 10
    /\ Return(None)
    /\ UNCHANGED <<src, parsed, quiet, step, shown, slept, self, n, call, res>>

\* line 233
ReturnSome ==
    /\ pc = "solve"
    /\ Top.pc = "return"
    /\ Return(Top.ret)
    /\ UNCHANGED <<src, parsed, quiet, step, shown, slept, self, n, call, res>>

Next ==
    \/ Parse
    \/ Enter
    \/ TryDigit
    \/ LoopEnd
    \/ ReturnSome

Spec == Init /\ [][Next]_vars

\* solution(0, true): no trace, no pause
InitHeadless == Init /\ quiet /\ step = 0

\* solution is one sequential computation: it runs while it has a step to take
FairSpec == InitHeadless /\ [][Next]_vars /\ WF_vars(Next)

(***************************************************************************)
(* Claims about solution, on the grid the client parsed (Start) and the    *)
(* value the outermost call returned (result).                             *)
(***************************************************************************)
Done == pc = "done"

Start == parsed[1]

Units ==
    {RowCells(r) : r \in 0..8} \cup {ColCells(c) : c \in 0..8}
        \cup {BlockCells(3 * br, 3 * bc) : br \in 0..2, bc \in 0..2}

PeersOf == [k \in 0..80 |->
               RowCells(RowOf(k)) \cup ColCells(ColOf(k)) \cup BlockCells(RowOf(k), ColOf(k))]

\* no digit stands twice in a row, a column or a block
NoRepeat(xs) ==
    \A u \in Units : \A k1 \in u : \A k2 \in u :
        (k1 < k2 /\ ~is_none(xs[k1]) /\ ~is_none(xs[k2])) => xs[k1][1].num # xs[k2][1].num

DigitsInRange(xs) == \A k \in 0..80 : ~is_none(xs[k]) => xs[k][1].num \in 1..9

ConsistentGivens(xs) == DigitsInRange(xs) /\ NoRepeat(xs)

Empties(xs) == Cardinality({k \in 0..80 : is_none(xs[k])})

Extends(full, start) ==
    \A k \in 0..80 : ~is_none(start[k]) => full[k][1].num = start[k][1].num

LastHole(xs) ==
    CHOOSE k \in 0..80 : is_none(xs[k]) /\ \A m \in (k + 1)..80 : ~is_none(xs[m])

\* every way of filling the holes, last hole first, with a digit no peer holds
RECURSIVE Fill(_)
Fill(xs) ==
    IF is_full(xs) THEN {xs}
    ELSE LET k == LastHole(xs)
         IN  UNION { Fill(WithAssigned(xs, k, d)) :
                       d \in {d \in 1..9 : ~Occurs(xs, PeersOf[k], d)} }

\* the full valid grids that extend start
Completions(start) ==
    {c \in Fill(start) : NoRepeat(c) /\ DigitsInRange(c) /\ Extends(c, start)}

\* a's 81 digits read in row-major order come no later than b's
LexLeq(a, b) ==
    \/ Sudoku_eq(a, b)
    \/ \E k \in 0..80 :
          /\ a[k][1].num < b[k][1].num
          /\ \A m \in 0..(k - 1) : a[m][1].num = b[m][1].num

\* C1: from consistent givens, a grid solution returns is full, repeats no
\* digit in any row, column or block, and holds every given of the start.
C1_Soundness ==
    (Done /\ result # None /\ ConsistentGivens(Start)) =>
        /\ is_full(result[1])
        /\ DigitsInRange(result[1])
        /\ NoRepeat(result[1])
        /\ \A k \in 0..80 : IsGiven(Start, k) => result[1][k] = Start[k]

\* a grid returned after a search through at least ten empty cells
C1_Witness ==
    Done /\ result # None /\ ConsistentGivens(Start) /\ Empties(Start) >= 10

\* C2: from consistent givens, solution returns None only if no full valid
\* grid extends the start.
C2_Completeness ==
    (Done /\ result = None /\ ConsistentGivens(Start)) => Completions(Start) = {}

\* consistent givens that no grid completes, searched and given up
C2_Witness ==
    Done /\ result = None /\ ConsistentGivens(Start) /\ Empties(Start) >= 10

\* each call is made on a grid with one empty cell fewer than its caller's,
\* so the depth never exceeds the empty cells of the start
DepthBound ==
    (pc = "solve") =>
        /\ Len(stack) <= Empties(Start) + 1
        /\ Empties(stack[1].self) = Empties(Start)
        /\ \A m \in 1..(Len(stack) - 1) :
               Empties(stack[m + 1].self) = Empties(stack[m].self) - 1

\* C3: on every input, consistent or not, the recursion is no deeper than the
\* empty cells of the start and solution returns.
C3_Terminates == []DepthBound /\ <>(pc \in {"done", "parse_error"})

\* the recursion at its deepest on a start with at least ten empty cells
C3_Witness ==
    pc = "solve" /\ Empties(Start) >= 10 /\ Len(stack) = Empties(Start) + 1

\* C6: from givens that repeat a digit in a row, a column or a block,
\* solution returns None.
C6_ContradictoryFails ==
    (Done /\ ~NoRepeat(Start)) => result = None

\* the loop of a frame is at the first empty cell of its grid in row-major
\* order, its digit is one of 1..9 while a callee runs, and the callee's grid
\* is the frame's with that cell Assigned that digit
SearchOrder ==
    (pc = "solve") =>
        \A m \in 1..Len(stack) :
            LET f == stack[m]
                k == f.i * 9 + f.j
            IN  (f.pc # "enter") =>
                    /\ is_none(f.self[k])
                    /\ \A l \in 0..(k - 1) : ~is_none(f.self[l])
                    /\ (m < Len(stack) =>
                            /\ f.x \in 1..9
                            /\ stack[m + 1].self = WithAssigned(f.self, k, f.x))

\* C10: insertions are tried only at the first empty cell, and from
\* consistent givens the grid returned is the completion whose digits in
\* row-major order are lexicographically smallest, whatever quiet and step.
C10_LexSmallest ==
    /\ SearchOrder
    /\ (Done /\ ConsistentGivens(Start)) =>
           \A c \in Completions(Start) :
               result # None /\ result[1] \in Completions(Start) /\ LexLeq(result[1], c)

\* a start with several completions, solved with the trace printed and paced
C10_Witness ==
    /\ Done /\ ConsistentGivens(Start) /\ result # None
    /\ Cardinality(Completions(Start)) > 1
    /\ ~quiet /\ step > 0 /\ shown = result /\ slept > Empties(Start)

====
